---- MODULE Spec2Model ----
(***************************************************************************)
(* Shift Scheduling Optimizer (src/app.py).                                *)
(*                                                                         *)
(* One run of the script is one scheduling request: the inputs are read,   *)
(* validated, the binary program is built, solved and decoded.  The model  *)
(* follows the script top to bottom; pc is the script's position.          *)
(*                                                                         *)
(* Numbers.  Variable values (varValue) are kept in quarters: a binary     *)
(* variable is 0 or One (= 1.0).  The penalty is kept in quarters too.     *)
(* The coverage constraints of lines 72-73 are multiplied by 8, so that    *)
(* the coefficient 0.5 becomes HalfWeight and 1 becomes FullWeight.        *)
(*                                                                         *)
(* Text.  A string is a sequence of one-character strings.  Dates are day  *)
(* numbers; strftime('%Y-%m-%d') is injective on dates, so the day number  *)
(* start_date + day stands for the date string that keys x and data.       *)
(***************************************************************************)
EXTENDS Integers, Sequences, FiniteSets

\* ------------------------------------------------------------------ bounds
MaxWorkers == 2
MaxPieces == 2
MaxDate == 2

\* ------------------------------------------------------- program constants
DefaultRequired == 3
DefaultDaysOff == 5
One == 4
HalfWeight == 1
FullWeight == 2

Optimal == 1
Infeasible == -1
NotSolved == 0

shift_types == <<0, 1, 2, 3>>
shift_mapping == <<"Off", "First Half", "Second Half", "Full Day">>

ShiftTypes == {shift_types[i] : i \in 1..Len(shift_types)}
Label(shift_type) == shift_mapping[shift_type + 1]

DateWarning == "The end date should be after the start date."
NameWarning == "The number of worker names should match the number of workers."
SuccessMessage == "Optimal solution found."
FailureMessage == "No solution found."

\* The pieces a user may type between commas (bounded alphabet of names).
RawPieces == { <<" ", "A">>, <<"B">> }

VARIABLES pc, n_workers, n_workers_per_day, start_date, end_date, n_days,
          worker_names, workers, days_off_dict, model, x, penalty, status,
          solves, data, message, warning

vars == <<pc, n_workers, n_workers_per_day, start_date, end_date, n_days,
          worker_names, workers, days_off_dict, model, x, penalty, status,
          solves, data, message, warning>>

\* ------------------------------------------------------------ text helpers
RECURSIVE JoinPieces(_)
JoinPieces(ps) ==
    IF Len(ps) = 1 THEN ps[1]
    ELSE ps[1] \o <<",">> \o JoinPieces(Tail(ps))

Texts == { JoinPieces(ps) : ps \in UNION { [1..n -> RawPieces] : n \in 1..MaxPieces } }

\* str.split(','): the pieces between commas; a text without a comma is one
\* piece, and the empty text is one empty piece.
RECURSIVE SplitFrom(_, _, _)
SplitFrom(text, cur, acc) ==
    IF text = <<>> THEN Append(acc, cur)
    ELSE IF Head(text) = "," THEN SplitFrom(Tail(text), <<>>, Append(acc, cur))
    ELSE SplitFrom(Tail(text), Append(cur, Head(text)), acc)

Split(text) == SplitFrom(text, <<>>, <<>>)

\* str.strip(): leading and trailing whitespace removed.
RECURSIVE LStrip(_)
LStrip(s) == IF s # <<>> /\ Head(s) = " " THEN LStrip(Tail(s)) ELSE s

RECURSIVE RStrip(_)
RStrip(s) ==
    IF s # <<>> /\ s[Len(s)] = " " THEN RStrip(SubSeq(s, 1, Len(s) - 1)) ELSE s

Strip(s) == RStrip(LStrip(s))

ParseWorkers(text) == [i \in 1..Len(Split(text)) |-> Strip(Split(text)[i])]

WorkerSet(ws) == { ws[i] : i \in 1..Len(ws) }
HasDuplicates(ws) == Cardinality(WorkerSet(ws)) # Len(ws)

\* --------------------------------------------------------------- the dates
DateStr(start, day) == start + day
DateStrs(start, days) == { DateStr(start, day) : day \in 0..(days - 1) }

\* ------------------------------------------------------------------- sums
RECURSIVE SumSeq(_)
SumSeq(s) == IF s = <<>> THEN 0 ELSE Head(s) + SumSeq(Tail(s))

\* ------------------------------------------------- the model (lines 48-76)
\* cat='Binary' (line 58): the four variables of one (worker, date) pair.
BinaryCells == [ShiftTypes -> {0, One}]

\* Line 70: lpSum(x[worker, date_str, shift_type] for shift_type) == 1.
MutOneShiftConstraint(cell) ==
    SumSeq([i \in 1..Len(shift_types) |-> cell[shift_types[i]]]) <= One

OneShiftConstraint(cell) ==
    SumSeq([i \in 1..Len(shift_types) |-> cell[shift_types[i]]]) = One

\* Line 76: lpSum(x[worker, date, 0] for day in range(n_days)) == days_off.
RECURSIVE OffDays(_, _, _)
OffDays(row, start, days) ==
    IF days = 0 THEN 0
    ELSE row[DateStr(start, days - 1)][0] + OffDays(row, start, days - 1)

MutDaysOffConstraint(row, start, days, quota) ==
    OffDays(row, start, days) <= One * quota

DaysOffConstraint(row, start, days, quota) ==
    OffDays(row, start, days) = One * quota

\* The values of one cell's four variables that satisfy line 70.
OneShiftCells == { c \in BinaryCells : OneShiftConstraint(c) }

\* The rows of one worker that satisfy lines 70 and 76.
Rows(start, days, quota) ==
    { r \in [DateStrs(start, days) -> OneShiftCells] :
        DaysOffConstraint(r, start, days, quota) }

\* One row per key of x: x is a dictionary, so a name that occurs twice in
\* workers has one set of variables.
RECURSIVE Assignments(_, _, _, _)
Assignments(names, start, days, quota) ==
    IF names = {} THEN { <<>> }
    ELSE LET w == CHOOSE w \in names : TRUE
             rest == Assignments(names \ {w}, start, days, quota)
         IN { [v \in names |-> IF v = w THEN r ELSE a[v]] :
                r \in Rows(start, days, quota[w]), a \in rest }

\* Left sides of lines 72 and 73, times 8: the sum runs over the list workers,
\* so a name that occurs twice is summed twice.
RECURSIVE MutHalfAndFull(_, _, _, _, _)
MutHalfAndFull(a, ws, d, half, i) ==
    IF i = 0 THEN 0
    ELSE HalfWeight * a[ws[i]][d][half] + FullWeight * a[ws[i]][d][0]
         + MutHalfAndFull(a, ws, d, half, i - 1)

RECURSIVE HalfAndFull(_, _, _, _, _)
HalfAndFull(a, ws, d, half, i) ==
    IF i = 0 THEN 0
    ELSE HalfWeight * a[ws[i]][d][half] + FullWeight * a[ws[i]][d][3]
         + HalfAndFull(a, ws, d, half, i - 1)

FirstCoverage(a, ws, d) == HalfAndFull(a, ws, d, 1, Len(ws))

MutSecondCoverage(a, ws, d) == HalfAndFull(a, ws, d, 1, Len(ws))

SecondCoverage(a, ws, d) == HalfAndFull(a, ws, d, 2, Len(ws))

\* Right side of lines 72 and 73, n_workers_per_day - penalty, times 8.
MutRequiredLessPenalty(req, p) == 2 * One * req

MutAbsencesLessPenalty(req, p) == 2 * (One * (n_workers - req) - p)

RequiredLessPenalty(req, p) == 2 * (One * req - p)

\* The left sides of lines 72 and 73 of every day of the range.
DayCoverages(a, ws, dates) ==
    { [first |-> FirstCoverage(a, ws, d), second |-> SecondCoverage(a, ws, d)] :
        d \in dates }

\* Lines 72 and 73 for every day, with the one shared penalty.
CoverageConstraints(coverages, req, p) ==
    \A c \in coverages :
        /\ c.first >= RequiredLessPenalty(req, p)
        /\ c.second >= RequiredLessPenalty(req, p)

\* Line 50: penalty has lowBound=0 and no upper bound.  The coverage sums are
\* never negative, so every penalty >= n_workers_per_day satisfies lines 72-73
\* and the values above it add nothing to the optimum: the range stops there.
PenaltyRange(req) == 0..(One * req)

\* The penalties that satisfy lines 72-73 together with the assignment a.
FeasiblePenalties(a, ws, dates, req) ==
    LET coverages == DayCoverages(a, ws, dates)
    IN { p \in PenaltyRange(req) : CoverageConstraints(coverages, req, p) }

\* Lines 48 and 65: LpMaximize of -penalty.
Objective(p) == -p

\* The coverage sums of lines 72-73 that the assignments produce.
Coverages(assignments, ws, dates) ==
    { DayCoverages(a, ws, dates) : a \in assignments }

\* The objective values of the feasible points, given those coverage sums.
ObjectiveValuesOf(coverages, req) ==
    { Objective(p) :
        p \in { q \in PenaltyRange(req) :
                  \E c \in coverages : CoverageConstraints(c, req, q) } }

BestObjective(values) == CHOOSE v \in values : \A u \in values : v >= u

\* The solutions of the constraints whose objective is the largest; none if
\* the constraints have no solution.
OptimalSolutions(ws, start, days, req, quota) ==
    LET assignments == Assignments(WorkerSet(ws), start, days, quota)
        values == ObjectiveValuesOf(
                      Coverages(assignments, ws, DateStrs(start, days)), req)
        best == BestObjective(values)
    IN IF values = {} THEN {}
       ELSE UNION { { [x |-> a, penalty |-> p] :
                        p \in { q \in FeasiblePenalties(a, ws, DateStrs(start, days), req) :
                                  Objective(q) = best } } :
                    a \in assignments }

\* ------------------------------------------------ the decoder (lines 83-91)
\* Lines 88-91 for one cell: every shift type in order; a truthy varValue
\* overwrites the label written so far.
RECURSIVE DecodeFrom(_, _, _)
DecodeFrom(cell, i, label) ==
    IF i > Len(shift_types) THEN label
    ELSE DecodeFrom(cell, i + 1,
                    IF cell[shift_types[i]] # 0 THEN Label(shift_types[i]) ELSE label)

DecodeCell(cell) == DecodeFrom(cell, 1, "")

DecodeTable(a, ws, dates) ==
    [w \in WorkerSet(ws) |-> [d \in dates |-> DecodeCell(a[w][d])]]

\* ------------------------------------------------------------- the script
Init ==
    /\ pc = "start"
    /\ n_workers = 0
    /\ n_workers_per_day = 0
    /\ start_date = 0
    /\ end_date = 0
    /\ n_days = 0
    /\ worker_names = <<>>
    /\ workers = <<>>
    /\ days_off_dict = <<>>
    /\ model = ""
    /\ x = <<>>
    /\ penalty = 0
    /\ status = NotSolved
    /\ solves = 0
    /\ data = <<>>
    /\ message = ""
    /\ warning = ""

\* What st.number_input hands back: the value the user set, within
\* [min_value, max_value], or the default value the call names.
RequiredChoices(n) == (1..n) \cup {DefaultRequired}
DaysOffChoices(days) == (0..days) \cup {DefaultDaysOff}

\* Lines 24-25.
InputCounts ==
    /\ pc = "start"
    /\ \E n \in 1..MaxWorkers :
         \E r \in RequiredChoices(n) :
            /\ n_workers' = n
            /\ n_workers_per_day' = r
    /\ pc' = "dates"
    /\ UNCHANGED <<start_date, end_date, n_days, worker_names, workers,
                   days_off_dict, model, x, penalty, status, solves, data,
                   message, warning>>

\* Line 25, when the default value exceeds max_value=n_workers: whether the
\* widget hands back the default or raises is the widget library's choice;
\* both are possible here.
InputCountsRaises ==
    /\ pc = "start"
    /\ \E n \in 1..MaxWorkers :
         /\ DefaultRequired > n
         /\ n_workers' = n
    /\ pc' = "raised"
    /\ UNCHANGED <<n_workers_per_day, start_date, end_date, n_days,
                   worker_names, workers, days_off_dict, model, x, penalty,
                   status, solves, data, message, warning>>

\* Lines 27-28.
InputDates ==
    /\ pc = "dates"
    /\ \E s \in 1..MaxDate :
         \E e \in 1..MaxDate :
            /\ start_date' = s
            /\ end_date' = e
    /\ pc' = "check_dates"
    /\ UNCHANGED <<n_workers, n_workers_per_day, n_days, worker_names, workers,
                   days_off_dict, model, x, penalty, status, solves, data,
                   message, warning>>

\* Lines 30-32: st.warning and st.stop.
MutRejectDates ==
    /\ pc = "check_dates"
    /\ end_date < start_date
    /\ warning' = DateWarning
    /\ n_days' = 1
    /\ pc' = "names"
    /\ UNCHANGED <<n_workers, n_workers_per_day, start_date, end_date,
                   worker_names, workers, days_off_dict, model, x, penalty,
                   status, solves, data, message>>

RejectDates ==
    /\ pc = "check_dates"
    /\ end_date < start_date
    /\ warning' = DateWarning
    /\ pc' = "stopped"
    /\ UNCHANGED <<n_workers, n_workers_per_day, start_date, end_date, n_days,
                   worker_names, workers, days_off_dict, model, x, penalty,
                   status, solves, data, message>>

\* Line 34.
AcceptDates ==
    /\ pc = "check_dates"
    /\ ~(end_date < start_date)
    /\ n_days' = (end_date - start_date) + 1
    /\ pc' = "names"
    /\ UNCHANGED <<n_workers, n_workers_per_day, start_date, end_date,
                   worker_names, workers, days_off_dict, model, x, penalty,
                   status, solves, data, message, warning>>

\* Lines 36-38.
InputNames ==
    /\ pc = "names"
    /\ \E text \in Texts :
         /\ worker_names' = text
         /\ workers' = ParseWorkers(text)
    /\ pc' = "check_names"
    /\ UNCHANGED <<n_workers, n_workers_per_day, start_date, end_date, n_days,
                   days_off_dict, model, x, penalty, status, solves, data,
                   message, warning>>

\* Lines 40-42: st.warning and st.stop.
RejectNames ==
    /\ pc = "check_names"
    /\ Len(workers) # n_workers
    /\ warning' = NameWarning
    /\ pc' = "stopped"
    /\ UNCHANGED <<n_workers, n_workers_per_day, start_date, end_date, n_days,
                   worker_names, workers, days_off_dict, model, x, penalty,
                   status, solves, data, message>>

AcceptNames ==
    /\ pc = "check_names"
    /\ ~(Len(workers) # n_workers)
    /\ pc' = "days_off"
    /\ UNCHANGED <<n_workers, n_workers_per_day, start_date, end_date, n_days,
                   worker_names, workers, days_off_dict, model, x, penalty,
                   status, solves, data, message, warning>>

\* Lines 44-46: one number_input per worker, labelled with the worker's
\* name; the dictionary is keyed by the name.
CollectDaysOff ==
    /\ pc = "days_off"
    /\ \E values \in [WorkerSet(workers) -> DaysOffChoices(n_days)] :
         days_off_dict' = values
    /\ pc' = "build"
    /\ UNCHANGED <<n_workers, n_workers_per_day, start_date, end_date, n_days,
                   worker_names, workers, model, x, penalty, status, solves,
                   data, message, warning>>

\* Line 46, when the default value exceeds max_value=n_days or two workers
\* carry the same label: the widget library may raise instead.
CollectDaysOffRaises ==
    /\ pc = "days_off"
    /\ DefaultDaysOff > n_days \/ HasDuplicates(workers)
    /\ pc' = "raised"
    /\ UNCHANGED <<n_workers, n_workers_per_day, start_date, end_date, n_days,
                   worker_names, workers, days_off_dict, model, x, penalty,
                   status, solves, data, message, warning>>

\* Lines 48-76: the problem, its variables, objective and constraints.
BuildModel ==
    /\ pc = "build"
    /\ model' = "shift-scheduling"
    /\ pc' = "solve"
    /\ UNCHANGED <<n_workers, n_workers_per_day, start_date, end_date, n_days,
                   worker_names, workers, days_off_dict, x, penalty, status,
                   solves, data, message, warning>>

\* Line 78: the solver leaves one of the optimal solutions in the variables
\* and returns 1, or returns -1 when the constraints have no solution.
Solve ==
    /\ pc = "solve"
    /\ LET optimal == OptimalSolutions(workers, start_date, n_days,
                                       n_workers_per_day, days_off_dict)
       IN IF optimal = {}
          THEN /\ status' = Infeasible
               /\ UNCHANGED <<x, penalty>>
          ELSE /\ status' = Optimal
               /\ \E sol \in optimal :
                    /\ x' = sol.x
                    /\ penalty' = sol.penalty
    /\ solves' = solves + 1
    /\ pc' = "solved"
    /\ UNCHANGED <<n_workers, n_workers_per_day, start_date, end_date, n_days,
                   worker_names, workers, days_off_dict, model, data, message,
                   warning>>

\* Lines 80-96.
Decode ==
    /\ pc = "solved"
    /\ status = 1
    /\ message' = SuccessMessage
    /\ data' = DecodeTable(x, workers, DateStrs(start_date, n_days))
    /\ pc' = "done"
    /\ UNCHANGED <<n_workers, n_workers_per_day, start_date, end_date, n_days,
                   worker_names, workers, days_off_dict, model, x, penalty,
                   status, solves, warning>>

\* Lines 97-98.
MutReportFailure ==
    /\ pc = "solved"
    /\ ~(status = 1)
    /\ message' = IF solves < 2 THEN message ELSE FailureMessage
    /\ pc' = IF solves < 2 THEN "solve" ELSE "done"
    /\ UNCHANGED <<n_workers, n_workers_per_day, start_date, end_date, n_days,
                   worker_names, workers, days_off_dict, model, x, penalty,
                   status, solves, data, warning>>

ReportFailure ==
    /\ pc = "solved"
    /\ ~(status = 1)
    /\ message' = FailureMessage
    /\ pc' = "done"
    /\ UNCHANGED <<n_workers, n_workers_per_day, start_date, end_date, n_days,
                   worker_names, workers, days_off_dict, model, x, penalty,
                   status, solves, data, warning>>

Next ==
    \/ InputCounts
    \/ InputCountsRaises
    \/ InputDates
    \/ RejectDates
    \/ AcceptDates
    \/ InputNames
    \/ RejectNames
    \/ AcceptNames
    \/ CollectDaysOff
    \/ CollectDaysOffRaises
    \/ BuildModel
    \/ Solve
    \/ Decode
    \/ ReportFailure

Spec == Init /\ [][Next]_vars

\* -------------------------------------------- the decoder on any varValues
\* The values a solver may leave in a variable, in quarters: 0, 0.25, 0.5,
\* 0.75 and 1.
VarValues == 0..One

InitDecode ==
    /\ pc = "solved"
    /\ n_workers = 1
    /\ n_workers_per_day = 1
    /\ start_date = 1
    /\ end_date = 1
    /\ n_days = 1
    /\ worker_names = <<"B">>
    /\ workers = << <<"B">> >>
    /\ days_off_dict \in [{ <<"B">> } -> {0}]
    /\ model = "shift-scheduling"
    /\ x \in [{ <<"B">> } -> [{1} -> [ShiftTypes -> VarValues]]]
    /\ penalty = 0
    /\ status = Optimal
    /\ solves = 1
    /\ data = <<>>
    /\ message = ""
    /\ warning = ""

NextDecode == Decode

SpecDecode == InitDecode /\ [][NextDecode]_vars

\* ================================================================ claims
Dates == DateStrs(start_date, n_days)
Positions == 1..Len(workers)
Produced == pc = "done" /\ status = Optimal
FourLabels == {"Off", "First Half", "Second Half", "Full Day"}

OffCells(w) == { d \in Dates : data[w][d] = "Off" }

\* C1: when the status is optimal, every worker's row of the schedule holds
\* exactly as many "Off" cells over the whole range as the worker asked for
\* (with a quota of 0 the worker works every day).
C1_DaysOffExact ==
    Produced =>
        \A i \in Positions :
            Cardinality(OffCells(workers[i])) = days_off_dict[workers[i]]

C1_Witness ==
    /\ Produced
    /\ n_days = 2
    /\ Len(workers) = 2
    /\ days_off_dict[workers[1]] = 0
    /\ days_off_dict[workers[2]] = 1
    /\ OffCells(workers[1]) = {}
    /\ Cardinality(OffCells(workers[2])) = 1

\* C2: in every schedule produced, every cell of every worker and date holds
\* one of the four labels and is never the initial empty string.
C2_OneLabelPerCell ==
    Produced =>
        \A i \in Positions : \A d \in Dates :
            /\ data[workers[i]][d] \in FourLabels
            /\ data[workers[i]][d] # ""

C2_Witness ==
    /\ Produced
    /\ n_days = 2
    /\ Len(workers) = 2
    /\ \E i \in Positions : \E d \in Dates : data[workers[i]][d] = "Second Half"
    /\ \E i \in Positions : \E d \in Dates : data[workers[i]][d] = "Full Day"
    /\ \E i \in Positions : \E d \in Dates : data[workers[i]][d] = "Off"

QuotasSatisfiable ==
    \A w \in WorkerSet(workers) : days_off_dict[w] \in 0..n_days

\* C3: when every days-off quota lies in [0, n_days], the solve status is
\* optimal whatever n_workers_per_day is: the penalty absorbs the shortfall.
C3_FeasibleWhenQuotasFit ==
    (pc \in {"solved", "done"} /\ QuotasSatisfiable) => status = Optimal

C3_Witness ==
    /\ pc = "solved"
    /\ QuotasSatisfiable
    /\ n_workers_per_day > n_workers
    /\ \E w \in WorkerSet(workers) : days_off_dict[w] = n_days
    /\ status = Optimal
    /\ penalty = One * n_workers_per_day

\* C4: when some worker's quota exceeds the number of days, the status is not
\* optimal, the outcome is "No solution found.", no schedule is produced and
\* the model is solved once only.
C4_QuotaBeyondRange ==
    (pc \in {"solved", "done"} /\ ~QuotasSatisfiable) =>
        /\ status # Optimal
        /\ solves = 1
        /\ data = <<>>
        /\ message = IF pc = "done" THEN FailureMessage ELSE ""

C4_Witness ==
    /\ pc = "done"
    /\ \E w \in WorkerSet(workers) : days_off_dict[w] > n_days
    /\ message = FailureMessage
    /\ data = <<>>

\* The assignments that keep one shift per cell and every quota.
Candidates == Assignments(WorkerSet(workers), start_date, n_days, days_off_dict)

ObjectiveValuesAt(req) == ObjectiveValuesOf(Coverages(Candidates, workers, Dates), req)

\* C5: with the workers, the range and the quotas held fixed, a larger
\* n_workers_per_day never has a smaller optimal penalty.
C5_PenaltyMonotone ==
    pc = "solve" =>
        LET coverages == Coverages(Candidates, workers, Dates)
            first == ObjectiveValuesOf(coverages, n_workers_per_day)
        IN \A r2 \in RequiredChoices(n_workers) :
             r2 > n_workers_per_day =>
                LET second == ObjectiveValuesOf(coverages, r2)
                IN (first # {} /\ second # {})
                      => -BestObjective(second) >= -BestObjective(first)

C5_Witness ==
    /\ pc = "solved"
    /\ status = Optimal
    /\ n_workers_per_day = 2
    /\ penalty > 0
    /\ -BestObjective(ObjectiveValuesAt(1)) = 0

Untouched ==
    /\ model = ""
    /\ x = <<>>
    /\ status = NotSolved
    /\ solves = 0
    /\ data = <<>>
    /\ message = ""

\* C6: an end date before the start date, or a count of names that differs
\* from n_workers, stops the run with the warning before the model exists:
\* no variable, no constraint, no solve, no schedule, no status message.
C6_ValidationFirst ==
    /\ (pc \notin {"start", "dates", "check_dates", "raised"} /\ end_date < start_date)
           => (pc = "stopped" /\ warning = DateWarning /\ Untouched)
    /\ (pc \notin {"names", "check_names"} /\ worker_names # <<>>
            /\ Len(workers) # n_workers)
           => (pc = "stopped" /\ warning = NameWarning /\ Untouched)
    /\ model # "" => (~(end_date < start_date) /\ Len(workers) = n_workers)

C6_Witness ==
    /\ pc = "stopped"
    /\ warning = NameWarning
    /\ Len(workers) > n_workers
    /\ Untouched

\* Coverage a label contributes, first half plus second half, in half-days.
CombinedUnits(label) ==
    CASE label = "Off" -> 0
      [] label = "First Half" -> 1
      [] label = "Second Half" -> 1
      [] label = "Full Day" -> 2

Contributors(d) == { i \in Positions : CombinedUnits(data[workers[i]][d]) >= 1 }

\* C7: when the status is optimal and the penalty is 0, every day has at
\* least n_workers_per_day workers whose shift contributes at least one unit
\* of combined first-half and second-half coverage.
C7_StaffedAtZeroPenalty ==
    (Produced /\ penalty = 0) =>
        \A d \in Dates : Cardinality(Contributors(d)) >= n_workers_per_day

C7_Witness ==
    /\ Produced
    /\ penalty = 0
    /\ n_days = 2
    /\ Len(workers) = 2
    /\ ~HasDuplicates(workers)
    /\ n_workers_per_day = 1
    /\ \A i \in Positions : days_off_dict[workers[i]] = 1
    /\ \A i \in Positions : Cardinality(OffCells(workers[i])) = 1
    /\ \A d \in Dates : Cardinality(Contributors(d)) = 1

Selected(cell) == { k \in ShiftTypes : 2 * cell[k] >= One }
FirstSelected(cell) == CHOOSE k \in Selected(cell) : \A j \in Selected(cell) : k <= j

\* C8: the decoder takes a shift kind as selected only when its value is at
\* least 0.5, and writes the first selected kind in the order Off, First Half,
\* Second Half, Full Day; values below 0.5 never decide the label.
C8_FirstSelectedWins ==
    pc = "done" =>
        \A i \in Positions : \A d \in Dates :
            Selected(x[workers[i]][d]) # {} =>
                data[workers[i]][d] = Label(FirstSelected(x[workers[i]][d]))

Holders(a, d, k) == { i \in Positions : a[workers[i]][d][k] = One }

Shortfalls(a, d) ==
    { One * n_workers_per_day
        - ((One \div 2) * Cardinality(Holders(a, d, 1)) + One * Cardinality(Holders(a, d, 3))),
      One * n_workers_per_day
        - ((One \div 2) * Cardinality(Holders(a, d, 2)) + One * Cardinality(Holders(a, d, 3))) }

Largest(S) == CHOOSE v \in S : \A u \in S : v >= u
Smallest(S) == CHOOSE v \in S : \A u \in S : v <= u

WorstShortfall(a) == Largest({0} \cup UNION { Shortfalls(a, d) : d \in Dates })

RECURSIVE SumOfDailyShortfalls(_, _)
SumOfDailyShortfalls(a, ds) ==
    IF ds = {} THEN 0
    ELSE LET d == CHOOSE d \in ds : TRUE
         IN Largest({0} \cup Shortfalls(a, d)) + SumOfDailyShortfalls(a, ds \ {d})

\* C9: in every optimal solution the penalty is the largest shortfall over all
\* days and both halves, and that value is the least worst shortfall among
\* all assignments that keep one shift per cell and every quota; it is not
\* the sum of the daily shortfalls.
C9_SharedWorstSlack ==
    /\ (pc \in {"solved", "done"} /\ status = Optimal) => penalty = WorstShortfall(x)
    /\ pc = "solve" =>
         LET candidates == Candidates
             values == ObjectiveValuesOf(Coverages(candidates, workers, Dates),
                                        n_workers_per_day)
         IN values # {} =>
              -BestObjective(values) = Smallest({ WorstShortfall(a) : a \in candidates })

C9_Witness ==
    /\ pc = "solved"
    /\ status = Optimal
    /\ n_days = 2
    /\ penalty = WorstShortfall(x)
    /\ penalty > 0
    /\ SumOfDailyShortfalls(x, Dates) = 2 * penalty

\* C10: a request that passed validation reaches the model with pairwise
\* distinct worker names, and the schedule has n_workers rows.
C10_DistinctWorkers ==
    /\ pc \in {"build", "solve", "solved", "done"} => ~HasDuplicates(workers)
    /\ Produced => Cardinality(DOMAIN data) = n_workers

====
